---- MODULE Spec2Model ----
(***************************************************************************)
(* netbackup (main.py): the device backup loop of main(), the two fetch    *)
(* paths (netmiko_read over SSH, requests.get against the device API),     *)
(* save_file and the construction of the report variables.                 *)
(*                                                                         *)
(* Texts (device output, response bodies, file contents) are sequences of  *)
(* lines; the empty string '' is the empty sequence.  Python's None is the *)
(* value None.  A CSV row is the tuple <<name, host, device_type,          *)
(* credential reference>>, so Python's row[0..3] is row[1..4] here.        *)
(***************************************************************************)
EXTENDS Integers, Sequences, FiniteSets, TLC

VARIABLES api_device_types, netmiko_device_types, csv_content, idx, pc,
          status, files, calls, log, last, report_vars

vars == <<api_device_types, netmiko_device_types, csv_content, idx, pc,
          status, files, calls, log, last, report_vars>>

(***************************************************************************)
(* Bounds of the model.                                                    *)
(***************************************************************************)
MaxRows == 3

(***************************************************************************)
(* Values.                                                                 *)
(***************************************************************************)
None == "<None>"

EmptyText == << >>

\* Python truthiness of device_data: None and '' are falsy.
Truthy(device_data) == device_data # None /\ device_data # EmptyText

(***************************************************************************)
(* Global variables of the script.                                         *)
(***************************************************************************)
ShippedApiDeviceTypes == {"fortinet"}

api_strings ==
    [k \in {"fortinet"} |->
        "/api/v2/monitor/system/config/backup?scope=global&access_token="]

ShippedNetmikoDeviceTypes ==
    {"mikrotik_routeros", "ubiquiti_edgeswitch", "cisco_s300"}

netmiko_device_commands ==
    [k \in {"mikrotik_routeros", "ubiquiti_edgeswitch", "cisco_s300"} |->
        IF k = "mikrotik_routeros" THEN "export" ELSE "show run"]

\* The tables are edited in place to add vendors (header comment of the
\* script).  Two editions are considered: the shipped one, and one in which
\* 'cisco_s300' was also added to api_device_types, so that the kind is in
\* both tables.
TableEditions ==
    { [api |-> ShippedApiDeviceTypes, netmiko |-> ShippedNetmikoDeviceTypes],
      [api |-> ShippedApiDeviceTypes \cup {"cisco_s300"},
       netmiko |-> ShippedNetmikoDeviceTypes] }

(***************************************************************************)
(* The environment loaded from the ENV file, and the paths of the run.     *)
(***************************************************************************)
Env ==
    [k \in {"ORG", "MAIN_USER", "MAIN_PASS", "FORTI_TOKEN"} |->
        CASE k = "ORG"         -> "acme"
          [] k = "MAIN_USER"   -> "admin"
          [] k = "MAIN_PASS"   -> "s3cret"
          [] k = "FORTI_TOKEN" -> "tok123"]

\* os.getenv: None for a key that is not set.
getenv(key) == IF key \in DOMAIN Env THEN Env[key] ELSE None

BckPath == "/bck/"

get_date == "20230101"

today_path == BckPath \o get_date

(***************************************************************************)
(* The input: rows of the CSV file.                                        *)
(***************************************************************************)
RowPool ==
    { <<"sw1", "10.0.0.1", "mikrotik_routeros", "MAIN_USER">>,
      <<"sw2", "10.0.0.4", "cisco_s300", "OTHER_USER">>,
      <<"fw1", "10.0.0.2", "fortinet", "FORTI_TOKEN">>,
      <<"fw2", "10.0.0.5", "fortinet", "UNSET_TOKEN">>,
      <<"x1", "10.0.0.3", "unknown_vendor", "MAIN_USER">> }

Batches == UNION { [1..n -> RowPool] : n \in 0..MaxRows }

DeviceNames == { r[1] : r \in RowPool }

(***************************************************************************)
(* What the outside world can answer.                                      *)
(***************************************************************************)
\* Output of the command run over the SSH session.
Outputs == { EmptyText, <<"/ip address add address=10.0.0.1/24">> }

\* An SSH session either fails (connection, authentication, protocol) or
\* yields the output of the command.
Sessions ==
    { [raises |-> TRUE, output |-> EmptyText] }
    \cup { [raises |-> FALSE, output |-> o] : o \in Outputs }

StatusCodes == {200, 401}

Bodies == { EmptyText, <<"config-version=FG100">> }

\* A GET either fails at network level or gets a response.
Exchanges ==
    { [raises |-> TRUE, status_code |-> 0, text |-> EmptyText] }
    \cup { [raises |-> FALSE, status_code |-> c, text |-> b] :
              c \in StatusCodes, b \in Bodies }

\* What can happen to the write of a file of the given content: all of it
\* is written; open() fails; or a write (or the close) fails after the
\* first `written` lines reached the file.
WriteOutcomes(device_data) ==
    { [result |-> "ok", written |-> Len(device_data)],
      [result |-> "open_failed", written |-> 0] }
    \cup { [result |-> "write_failed", written |-> n] :
              n \in 0..Len(device_data) }

\* An entry of the backup directory: no file, or a file and its content.
NoFile == [exists |-> FALSE, content |-> EmptyText]

FileOf(text) == [exists |-> TRUE, content |-> text]

(***************************************************************************)
(* save_file                                                               *)
(***************************************************************************)
Filename(save_path, device_name) == save_path \o "/" \o device_name \o ".txt"

Filenames == { Filename(today_path, n) : n \in DeviceNames }

\* save_file without its try/except: a failed open or write leaves main().
save_file_uncaught(dir, save_path, device_name, device_data, w) ==
    LET filename == Filename(save_path, device_name)
    IN  CASE w.result = "ok" ->
               [dir |-> [dir EXCEPT ![filename] = FileOf(device_data)],
                logged |-> << >>, propagates |-> FALSE]
          [] w.result = "open_failed" ->
               [dir |-> dir, logged |-> << >>, propagates |-> TRUE]
          [] w.result = "write_failed" ->
               [dir |-> [dir EXCEPT
                           ![filename] =
                              FileOf(SubSeq(device_data, 1, w.written))],
                logged |-> << >>, propagates |-> TRUE]

\* The directory after save_file, and what save_file logged.  open(.., "w+")
\* truncates, so a failed write leaves the lines written so far.  Every
\* exception is caught inside save_file.
save_file(dir, save_path, device_name, device_data, w) ==
    LET filename == Filename(save_path, device_name)
    IN  CASE w.result = "ok" ->
               [dir |-> [dir EXCEPT ![filename] = FileOf(device_data)],
                logged |-> << >>, propagates |-> FALSE]
          [] w.result = "open_failed" ->
               [dir |-> dir,
                logged |-> << <<"ERROR", "save_file", device_name>> >>,
                propagates |-> FALSE]
          [] w.result = "write_failed" ->
               [dir |-> [dir EXCEPT
                           ![filename] =
                              FileOf(SubSeq(device_data, 1, w.written))],
                logged |-> << <<"ERROR", "save_file", device_name>> >>,
                propagates |-> FALSE]

(***************************************************************************)
(* netmiko_read                                                            *)
(***************************************************************************)
Header(host) ==
    << "####################################",
       "# Output for device " \o host,
       "####################################",
       "" >>

\* The read strategy: timed drain for mikrotik_routeros, prompt-synchronized
\* for every other kind.
ReadMethod(device_type) ==
    IF device_type = "mikrotik_routeros"
    THEN "send_command_timing"
    ELSE "send_command"

\* netmiko_read without its try/except: a failed session leaves main().
netmiko_read_uncaught(netmiko_device, commands, session) ==
    IF session.raises \/ netmiko_device.device_type \notin DOMAIN commands
    THEN [data |-> None, logged |-> << >>, propagates |-> TRUE]
    ELSE [data |-> Header(netmiko_device.host) \o session.output,
          logged |-> << >>,
          propagates |-> FALSE]

\* netmiko_read returning the bare output, the header left out.
netmiko_read_no_header(netmiko_device, commands, session) ==
    IF session.raises \/ netmiko_device.device_type \notin DOMAIN commands
    THEN [data |-> None,
          logged |-> << <<"ERROR", "netmiko_read", netmiko_device.host>> >>,
          propagates |-> FALSE]
    ELSE [data |-> session.output, logged |-> << >>, propagates |-> FALSE]

\* netmiko_read handing back '' when the command printed nothing.
netmiko_read_bare_when_empty(netmiko_device, commands, session) ==
    IF session.raises \/ netmiko_device.device_type \notin DOMAIN commands
    THEN [data |-> None,
          logged |-> << <<"ERROR", "netmiko_read", netmiko_device.host>> >>,
          propagates |-> FALSE]
    ELSE [data |-> IF session.output = EmptyText THEN EmptyText
                   ELSE Header(netmiko_device.host) \o session.output,
          logged |-> << >>,
          propagates |-> FALSE]

\* The result of netmiko_read: None when anything raised inside the try
\* block (the function falls off its end), header + output otherwise.
netmiko_read(netmiko_device, commands, session) ==
    IF session.raises \/ netmiko_device.device_type \notin DOMAIN commands
    THEN [data |-> None,
          logged |-> << <<"ERROR", "netmiko_read", netmiko_device.host>> >>,
          propagates |-> FALSE]
    ELSE [data |-> Header(netmiko_device.host) \o session.output,
          logged |-> << >>,
          propagates |-> FALSE]

(***************************************************************************)
(* The API call of main (lines 182-194)                                    *)
(***************************************************************************)
\* 'https://' + row[1] + api_strings[row[2]] + os.getenv(row[3]); the
\* concatenation raises TypeError when the environment entry is not set.
ApiUrl(row) ==
    IF getenv(row[4]) = None \/ row[3] \notin DOMAIN api_strings
    THEN None
    ELSE "https://" \o row[2] \o api_strings[row[3]] \o getenv(row[4])

\* An API call that keeps the body of a 200 response only.
api_get_status_checked(exchange) ==
    IF exchange.raises
    THEN [data |-> None, propagates |-> TRUE]
    ELSE [data |-> IF exchange.status_code = 200 THEN exchange.text
                   ELSE EmptyText,
          propagates |-> FALSE]

\* requests.get(api_url, verify=False) followed by response.text.  Nothing
\* around the call catches an exception, and the status code is not read.
api_get(exchange) ==
    IF exchange.raises
    THEN [data |-> None, propagates |-> TRUE]
    ELSE [data |-> exchange.text, propagates |-> FALSE]

(***************************************************************************)
(* main: the loop over the rows                                            *)
(***************************************************************************)
\* Validation of device_type input (line 135): TRUE when the row is refused.
Refused(row) ==
    row[3] \notin netmiko_device_types /\ row[3] \notin api_device_types

\* comm_type after lines 129-148.
CommType(row) ==
    LET c0 == ""
        c1 == IF row[3] \in netmiko_device_types
                 /\ row[3] \notin api_device_types
              THEN "netmiko" ELSE c0
        c2 == IF row[3] \in api_device_types
                 /\ row[3] \notin netmiko_device_types
              THEN "api" ELSE c1
    IN  c2

\* `continue` in the place of `break`.
AfterRefusedContinue == "loop"

\* Where the loop goes after a refused row: `break`.
AfterRefused == "report"

\* row_status after lines 198-200: OK as soon as device_data is truthy,
\* whatever save_file did.
RowStatus(device_name, device_data, w) ==
    IF Truthy(device_data) THEN <<device_name, "OK">>
    ELSE <<device_name, "NOT OK">>

\* An append that keeps the rows that were backed up only.
AppendStatusOkOnly(st, row_status) ==
    IF row_status[2] = "OK" THEN Append(st, row_status) ELSE st

\* status.append(row_status)
AppendStatus(st, row_status) == Append(st, row_status)

NoWrite == [result |-> "none", written |-> 0]

NoLast ==
    [row |-> 0, comm_type |-> "", fetch |-> "none", status_code |-> 0,
     text |-> EmptyText, device_data |-> EmptyText, write |-> NoWrite]

CurrentRow == csv_content[idx + 1]

InLoop == pc = "loop" /\ idx < Len(csv_content)

\* Lines 197-206: save when device_data is truthy, record the row status,
\* go on with the next row.
SaveAndRecord(row, device_data, fetched, errors) ==
    /\ \E w \in (IF Truthy(device_data)
                 THEN WriteOutcomes(device_data) ELSE {NoWrite}) :
          LET saved == IF Truthy(device_data)
                       THEN save_file(files, today_path, row[1],
                                      device_data, w)
                       ELSE [dir |-> files, logged |-> << >>,
                             propagates |-> FALSE]
          IN  /\ files' = saved.dir
              /\ log' = log \o errors \o saved.logged
              /\ last' = [fetched EXCEPT !.device_data = device_data,
                                         !.write = w]
              /\ IF saved.propagates
                 THEN pc' = "crashed" /\ status' = status /\ idx' = idx
                 ELSE /\ status' = AppendStatus(status,
                                      RowStatus(row[1], device_data, w))
                      /\ idx' = idx + 1
                      /\ pc' = "loop"
    /\ UNCHANGED <<api_device_types, netmiko_device_types, csv_content,
                   report_vars>>

\* Crash: an exception leaves main(); nothing after the raising line runs.
Crash(fetched, errors) ==
    /\ pc' = "crashed"
    /\ last' = fetched
    /\ log' = log \o errors
    /\ UNCHANGED <<api_device_types, netmiko_device_types, csv_content,
                   idx, status, files, report_vars>>

\* A row whose device_type is in neither table: logged, then `break`.
IterRefused ==
    /\ InLoop
    /\ Refused(CurrentRow)
    /\ pc' = AfterRefused
    /\ log' = Append(log, <<"ERROR", "device_type", CurrentRow[1]>>)
    /\ last' = [NoLast EXCEPT !.row = idx + 1, !.fetch = "refused"]
    /\ idx' = IF AfterRefused = "loop" THEN idx + 1 ELSE idx
    /\ UNCHANGED <<api_device_types, netmiko_device_types, csv_content,
                   status, files, calls, report_vars>>

\* case 'netmiko' (lines 152-175), then the tail of the iteration.
IterNetmiko ==
    /\ InLoop
    /\ ~Refused(CurrentRow)
    /\ CommType(CurrentRow) = "netmiko"
    /\ \E session \in Sessions :
          LET row  == CurrentRow
              user == IF row[4] = "MAIN_USER" THEN getenv("MAIN_USER") ELSE ""
              pw   == IF row[4] = "MAIN_USER" THEN getenv("MAIN_PASS") ELSE ""
              netmiko_device ==
                  [host |-> row[2], username |-> user, password |-> pw,
                   secret |-> pw, device_type |-> row[3]]
              r == netmiko_read(netmiko_device, netmiko_device_commands,
                                session)
              fetched ==
                  [NoLast EXCEPT !.row = idx + 1, !.comm_type = "netmiko",
                        !.fetch = IF session.raises THEN "raised"
                                  ELSE "returned",
                        !.text = session.output]
          IN  /\ calls' = Append(calls,
                     [row |-> idx + 1, comm_type |-> "netmiko",
                      target |-> netmiko_device,
                      method |-> ReadMethod(row[3])])
              /\ IF r.propagates
                 THEN Crash(fetched, r.logged)
                 ELSE SaveAndRecord(row, r.data, fetched, r.logged)

\* case 'api' (lines 177-195), then the tail of the iteration.
IterApi ==
    /\ InLoop
    /\ ~Refused(CurrentRow)
    /\ CommType(CurrentRow) = "api"
    /\ LET row == CurrentRow
           api_url == ApiUrl(row)
       IN  IF api_url = None
           THEN /\ calls' = calls
                /\ Crash([NoLast EXCEPT !.row = idx + 1,
                                        !.comm_type = "api",
                                        !.fetch = "no_url"], << >>)
           ELSE \E exchange \in Exchanges :
                   LET r == api_get(exchange)
                       fetched ==
                           [NoLast EXCEPT !.row = idx + 1,
                                 !.comm_type = "api",
                                 !.fetch = IF exchange.raises THEN "raised"
                                           ELSE "returned",
                                 !.status_code = exchange.status_code,
                                 !.text = exchange.text]
                   IN  /\ calls' = Append(calls,
                              [row |-> idx + 1, comm_type |-> "api",
                               target |-> api_url, method |-> "GET"])
                       /\ IF r.propagates
                          THEN Crash(fetched, << >>)
                          ELSE SaveAndRecord(row, r.data, fetched, << >>)

\* A row that passed the validation but matched no case of `match
\* comm_type` (its device_type is in both tables): device_data stays ''.
IterNoCase ==
    /\ InLoop
    /\ ~Refused(CurrentRow)
    /\ CommType(CurrentRow) = ""
    /\ calls' = calls
    /\ SaveAndRecord(CurrentRow, EmptyText,
            [NoLast EXCEPT !.row = idx + 1, !.fetch = "no_case"], << >>)

\* The for loop runs out of rows.
LoopEnd ==
    /\ pc = "loop"
    /\ idx = Len(csv_content)
    /\ pc' = "report"
    /\ UNCHANGED <<api_device_types, netmiko_device_types, csv_content, idx,
                   status, files, calls, log, last, report_vars>>

\* Lines 208-216: the report variables are built from the status list.
Report ==
    /\ pc = "report"
    /\ report_vars' = [org |-> getenv("ORG"), date |-> get_date,
                       status |-> status]
    /\ pc' = "done"
    /\ UNCHANGED <<api_device_types, netmiko_device_types, csv_content, idx,
                   status, files, calls, log, last>>

Init ==
    /\ \E t \in TableEditions :
          /\ api_device_types = t.api
          /\ netmiko_device_types = t.netmiko
    /\ csv_content \in Batches
    /\ idx = 0
    /\ pc = "loop"
    /\ status = << >>
    /\ files = [f \in Filenames |-> NoFile]
    /\ calls = << >>
    /\ log = << >>
    /\ last = NoLast
    /\ report_vars = None

Next ==
    \/ IterRefused
    \/ IterNetmiko
    \/ IterApi
    \/ IterNoCase
    \/ LoopEnd
    \/ Report

Spec == Init /\ [][Next]_vars

(***************************************************************************)
(* Properties                                                              *)
(***************************************************************************)
Range(f) == { f[k] : k \in DOMAIN f }

\* Position of the first row of the batch whose device_type is in neither
\* table; one past the end when there is none.
FirstRefused ==
    IF \E k \in 1..Len(csv_content) : Refused(csv_content[k])
    THEN CHOOSE k \in 1..Len(csv_content) :
            /\ Refused(csv_content[k])
            /\ \A j \in 1..(k - 1) : ~Refused(csv_content[j])
    ELSE Len(csv_content) + 1

\* The row the last iteration was about.
LastRow == csv_content[last.row]

LastFile == files[Filename(today_path, LastRow[1])]

\* The header block each adapter puts in front of the text it fetched:
\* netmiko_read's host header; the API path has none.
AdapterHeader(comm_type, host) ==
    IF comm_type = "netmiko" THEN Header(host) ELSE EmptyText

ReportBuilt == pc = "done"

\* C1: when the report is built, the outcome list has exactly one entry
\* for each row that passed the device_type validation before the loop
\* stopped, and the entries carry the rows' names in input order.
C1_OneOutcomePerClassifiedRow ==
    pc \in {"report", "done"} =>
        /\ Len(status) = FirstRefused - 1
        /\ \A k \in 1..Len(status) :
              /\ status[k][1] = csv_content[k][1]
              /\ status[k][2] \in {"OK", "NOT OK"}
        /\ (ReportBuilt => report_vars.status = status)

\* A report built for a batch of three rows that stopped at its third row,
\* holding one failed and one saved device.
C1_Witness ==
    /\ ReportBuilt
    /\ Len(csv_content) = 3
    /\ FirstRefused = 3
    /\ Len(report_vars.status) = 2
    /\ report_vars.status[1][2] = "NOT OK"
    /\ report_vars.status[2][2] = "OK"

\* C2: an API device whose GET fails at network level gets a NOT OK entry
\* in the outcome list, no file is written for it, and the run does not
\* stop there.
C2_ApiFailureBecomesOutcome ==
    (last.comm_type = "api" /\ last.fetch = "raised") =>
        /\ pc # "crashed"
        /\ Len(status) = last.row
        /\ status[last.row] = <<LastRow[1], "NOT OK">>
        /\ last.write.result = "none"

\* C3: a failure raised while netmiko_read opens the session or runs the
\* command stays inside netmiko_read: the iteration appends a NOT OK entry
\* for the device, leaves every file alone and hands over to the next row.
C3_ShellFailureContained ==
    [][ (last'.row = idx + 1 /\ last'.comm_type = "netmiko"
           /\ last'.fetch = "raised")
        => /\ status' = Append(status, <<CurrentRow[1], "NOT OK">>)
           /\ files' = files
           /\ pc' = "loop"
           /\ idx' = idx + 1
           /\ log' = Append(log, <<"ERROR", "netmiko_read", CurrentRow[2]>>)
      ]_vars

\* A shell device failed and the row after it was backed up.
C3_Witness ==
    \E k \in 1..(Len(status) - 1) :
        /\ CommType(csv_content[k]) = "netmiko"
        /\ status[k][2] = "NOT OK"
        /\ <<"ERROR", "netmiko_read", csv_content[k][2]>> \in Range(log)
        /\ status[k + 1][2] = "OK"

\* C4: a row whose device_type is in neither table stops the loop: the
\* step calls no adapter, writes no file and appends no outcome, nothing
\* does so afterwards, and the outcomes recorded before the row are the
\* ones handed to the report.
C4_FailFastOnUnknownKind ==
    [][ /\ (InLoop /\ Refused(CurrentRow))
            => /\ pc' = "report"
               /\ status' = status
               /\ files' = files
               /\ calls' = calls
               /\ Len(status) = idx
        /\ (pc = "report")
            => /\ status' = status
               /\ files' = files
               /\ calls' = calls
               /\ pc' = "done"
               /\ report_vars'.status = status
      ]_vars

\* The second row of a batch was refused after the first row was
\* processed, and the report holds exactly the first row's outcome.
C4_Witness ==
    /\ ReportBuilt
    /\ Len(csv_content) = 3
    /\ FirstRefused = 2
    /\ last.fetch = "refused"
    /\ Len(report_vars.status) = 1
    /\ Len(calls) = 1

\* C5: a device whose fetch failed or returned empty content has no file
\* written for it and has NOT OK as its recorded outcome.
C5_FailedFetchIsNotOk ==
    (last.fetch = "raised"
       \/ (last.fetch = "returned" /\ ~Truthy(last.device_data))) =>
        /\ last.write.result = "none"
        /\ Len(status) = last.row
        /\ status[last.row] = <<LastRow[1], "NOT OK">>

\* C6 as stated: whenever a fetch returned non-empty content, the file named
\* after the device holds the adapter's header block followed by the text
\* the device returned.
C6_FileHoldsHeaderAndText ==
    (last.fetch = "returned" /\ Truthy(last.device_data)) =>
        LastFile =
            FileOf(AdapterHeader(last.comm_type, LastRow[2]) \o last.text)

\* C6, amended: whenever a fetch returned non-empty content and the write
\* of the file went through, the file named after the device holds the
\* adapter's header block followed by the text the device returned.
C6_FileHoldsHeaderAndTextWhenWritten ==
    (last.fetch = "returned" /\ Truthy(last.device_data)
       /\ last.write.result = "ok") =>
        LastFile =
            FileOf(AdapterHeader(last.comm_type, LastRow[2]) \o last.text)

\* A shell device and an API device were both fetched and written: the
\* first file holds header and command output, the second the body.
C6_Witness ==
    /\ Len(status) = 2
    /\ last.row = 2
    /\ csv_content[1] = <<"sw1", "10.0.0.1", "mikrotik_routeros", "MAIN_USER">>
    /\ csv_content[2] = <<"fw1", "10.0.0.2", "fortinet", "FORTI_TOKEN">>
    /\ last.write.result = "ok"
    /\ files[Filename(today_path, "sw1")] =
          FileOf(Header("10.0.0.1")
                   \o <<"/ip address add address=10.0.0.1/24">>)
    /\ files[Filename(today_path, "fw1")] =
          FileOf(<<"config-version=FG100">>)

\* C7: a run never ends anywhere but behind the report step: once the run
\* has ended, the report was built and lists every row reached before any
\* stop of the loop, each marked OK or NOT OK.
C7_RunEndsWithReport ==
    pc \in {"done", "crashed"} =>
        /\ ReportBuilt
        /\ Len(report_vars.status) = FirstRefused - 1
        /\ \A k \in 1..Len(report_vars.status) :
              /\ report_vars.status[k][1] = csv_content[k][1]
              /\ report_vars.status[k][2] \in {"OK", "NOT OK"}

C9_WriteFailureKeepsOutcome ==
    (last.write.result \in {"open_failed", "write_failed"}) =>
        /\ Truthy(last.device_data)
        /\ pc # "crashed"
        /\ idx = last.row
        /\ Len(status) = last.row
        /\ status[last.row] = <<LastRow[1], "OK">>
        /\ Len(log) > 0
        /\ log[Len(log)] = <<"ERROR", "save_file", LastRow[1]>>

\* The write failed for one row and the row after it was processed.
C9_Witness ==
    /\ last.row >= 2
    /\ Len(status) = last.row
    /\ status[last.row - 1][2] = "OK"
    /\ status[last.row - 1][1] # LastRow[1]
    /\ files[Filename(today_path, status[last.row - 1][1])] = NoFile
    /\ <<"ERROR", "save_file", status[last.row - 1][1]>> \in Range(log)

\* C10: whatever the status code of the response, the body is the device
\* data; a non-empty body is handed to save_file and the outcome is OK,
\* and the file holds the body when the write went through.
C10_BodyUsedWhateverTheStatus ==
    (last.comm_type = "api" /\ last.fetch = "returned") =>
        /\ last.device_data = last.text
        /\ Truthy(last.text) =>
              /\ last.write.result # "none"
              /\ Len(status) = last.row
              /\ status[last.row] = <<LastRow[1], "OK">>
              /\ (last.write.result = "ok" => LastFile = FileOf(last.text))

\* A 401 response with a non-empty body was saved and marked OK.
C10_Witness ==
    /\ last.comm_type = "api"
    /\ last.fetch = "returned"
    /\ last.status_code = 401
    /\ Truthy(last.text)
    /\ last.write.result = "ok"
    /\ LastFile = FileOf(last.text)
    /\ status[last.row] = <<LastRow[1], "OK">>

\* C11: a netmiko_read that returned without an exception handed back the
\* host header followed by the command output, which is never empty: the
\* row is recorded OK and its data goes to save_file, so that the file
\* holds the header alone when the command printed nothing and the write
\* went through; a shell row is recorded NOT OK only after an exception.
C11_ShellResultNeverEmpty ==
    (last.comm_type = "netmiko") =>
        /\ Len(status) = last.row
        /\ (last.fetch = "returned") =>
              /\ last.device_data = Header(LastRow[2]) \o last.text
              /\ Truthy(last.device_data)
              /\ status[last.row] = <<LastRow[1], "OK">>
              /\ last.write.result # "none"
              /\ (last.write.result = "ok" /\ last.text = EmptyText) =>
                    LastFile = FileOf(Header(LastRow[2]))
        /\ (status[last.row][2] = "NOT OK") => last.fetch = "raised"

\* A shell device whose command printed nothing was recorded OK and its
\* file holds the header and nothing else.
C11_Witness ==
    /\ last.comm_type = "netmiko"
    /\ last.fetch = "returned"
    /\ last.text = EmptyText
    /\ last.write.result = "ok"
    /\ status[last.row] = <<LastRow[1], "OK">>
    /\ LastFile = FileOf(Header(LastRow[2]))
    /\ Len(LastFile.content) = 4

====
